---- MODULE Spec2Model ----
(***************************************************************************)
(* Model of src/app/plugin/pluginManager.js (class PluginManager): the     *)
(* plugin registry (plugins, origins), the focus state (inFocus), the      *)
(* window 'message' listener with its deferred handler completions, the    *)
(* host event taps wired to broadcast, and the outbound post primitives.   *)
(*                                                                         *)
(* JavaScript values: the strings "undefined" and "null" stand for the JS  *)
(* values undefined and null.  Titles, urls and tab names are non-empty    *)
(* strings, none of them a property inherited from Object.prototype.       *)
(* A JSON text is represented by the object it encodes; JSONstringify and  *)
(* JSONparse model what the conversion does to undefined members and to    *)
(* texts that are not JSON.                                                *)
(***************************************************************************)
EXTENDS Integers, Sequences, FiniteSets, TLC

VARIABLES
  plugins,   \* self.plugins: insertion-ordered map title -> {content, origin}
  origins,   \* self.origins: url -> title (undefined when the key is absent)
  inFocus,   \* self.inFocus
  calls,     \* endpoint handlers invoked whose completion callback is still due
  compiles,  \* getCompilationResult callbacks still due (their tabName)
  sent,      \* the postMessage calls made by the last step, in order
  op,        \* the last event handled, with its arguments
  lastNote   \* per title, the latest focus/unfocus notification posted to it

vars == <<plugins, origins, inFocus, calls, compiles, sent, op, lastNote>>

(* ------------------------------ bounds -------------------------------- *)
MaxCalls == 1
MaxCompiles == 1
MaxInflight == 2

(* ------------------------------ inputs -------------------------------- *)
undefined == "undefined"
null == "null"

Titles == {"A", "B"}
TabNames == Titles \cup {"settings"}
Urls == {"u1", "u2"}
Windows == {"w1", "w2"}
Ids == {1, 2}
Providers == {"vm", "injected"}

\* JS truthiness of the values that occur: undefined, null and "" are falsy
Truthy(v) == v # undefined /\ v # null /\ v # ""

(* --------------------------- object helpers --------------------------- *)
\* the own keys of self.plugins, in for-in (insertion) order
Keys(p) == [i \in DOMAIN p |-> p[i].title]

\* self.plugins[name] is truthy
Has(p, name) == \E i \in DOMAIN p : p[i].title = name

\* self.plugins[name]
Get(p, name) == p[CHOOSE i \in DOMAIN p : p[i].title = name]

\* self.plugins[title] = entry : an existing key keeps its place
Put(p, entry) ==
  IF Has(p, entry.title)
    THEN [i \in DOMAIN p |-> IF p[i].title = entry.title THEN entry ELSE p[i]]
    ELSE Append(p, entry)

\* delete self.plugins[title]
Delete(p, title) == SelectSeq(p, LAMBDA e : e.title # title)

(* ------------------------------- codec -------------------------------- *)
\* JSON.stringify of an envelope: a member that is undefined is left out
\* (written "absent" here), an undefined array element becomes null
JSONstringify(obj) ==
  [f \in DOMAIN obj |->
     IF f = "value"
       THEN [i \in DOMAIN obj.value |->
               IF obj.value[i] = undefined THEN null ELSE obj.value[i]]
     ELSE IF f = "error"
       THEN IF obj.error = undefined THEN "absent" ELSE obj.error
       ELSE obj[f]]

\* JSON.parse(event.data) throws on a text that is not JSON
ParseThrows(data) == data.text # "json"
JSONparse(data) == data.obj

\* data.value.unshift / data.value.push throw when data.value is undefined
ValueThrows(data) == "value" \notin DOMAIN data

Notification(key, type, value) ==
  [action |-> "notification", key |-> key, type |-> type, value |-> value]

(* ------------------------------ outbound ------------------------------ *)
\* post(name, value): one postMessage to the plugin's window, targeted at
\* the origin recorded for it, or nothing
post(p, name, value) ==
  IF Has(p, name)
    THEN << [to |-> name, window |-> Get(p, name).content,
             targetOrigin |-> Get(p, name).origin, data |-> value] >>
    ELSE << >>

RECURSIVE postAll(_, _, _)
postAll(p, names, value) ==
  IF names = << >> THEN << >>
  ELSE post(p, Head(names), value) \o postAll(p, Tail(names), value)

\* a broadcast whose loop misses the first key
broadcastSkipsFirst(p, value) ==
  IF p = << >> THEN << >> ELSE postAll(p, Tail(Keys(p)), value)

\* broadcast(value)
broadcast(p, value) == postAll(p, Keys(p), value)

\* postToOrigin(origin, value)
postToOrigin(p, o, origin, value) ==
  IF Truthy(o[origin]) THEN post(p, o[origin], value) ELSE << >>

(* ------------------------- notification history ----------------------- *)
IsFocusNote(d) ==
  d.data.action = "notification" /\ d.data.key = "app"
  /\ d.data.type \in {"focus", "unfocus"}

RECURSIVE Noted(_, _)
Noted(ln, s) ==
  IF s = << >> THEN ln
  ELSE Noted(IF IsFocusNote(Head(s)) /\ Head(s).to \in DOMAIN ln
               THEN [ln EXCEPT ![Head(s).to] = Head(s).data.type]
               ELSE ln,
             Tail(s))

\* what every step does with its outbound messages
Emit(s) == sent' = s /\ lastNote' = Noted(lastNote, s)

(* ------------------------------- state -------------------------------- *)
Init ==
  /\ plugins = << >>
  /\ origins = [u \in Urls |-> undefined]
  /\ inFocus = undefined
  /\ calls = << >>
  /\ compiles = << >>
  /\ sent = << >>
  /\ op = [name |-> "constructor"]
  /\ lastNote = [t \in Titles |-> "none"]

(* ------------------------------ registry ------------------------------ *)
registerPlugins(p, desc, content) ==
  Put(p, [title |-> desc.title, content |-> content, origin |-> desc.url])

registerOrigins(o, desc) == [o EXCEPT ![desc.url] = desc.title]

register(desc, content) ==
  /\ plugins' = registerPlugins(plugins, desc, content)
  /\ origins' = registerOrigins(origins, desc)
  /\ op' = [name |-> "register", desc |-> desc, content |-> content,
            old |-> IF Has(plugins, desc.title)
                      THEN Get(plugins, desc.title).origin ELSE undefined]
  /\ Emit(<< >>)
  /\ UNCHANGED <<inFocus, calls, compiles>>

unregisterPlugins(p, desc) == Delete(p, desc.title)

unregisterOrigins(o, desc) == [o EXCEPT ![desc.url] = undefined]

\* an unregister that also drops the focus of the plugin it removes
unregisterClearsFocus(desc) ==
  /\ plugins' = unregisterPlugins(plugins, desc)
  /\ origins' = unregisterOrigins(origins, desc)
  /\ inFocus' = IF inFocus = desc.title THEN undefined ELSE inFocus
  /\ op' = [name |-> "unregister", desc |-> desc]
  /\ Emit(<< >>)
  /\ UNCHANGED <<calls, compiles>>

unregister(desc) ==
  /\ plugins' = unregisterPlugins(plugins, desc)
  /\ origins' = unregisterOrigins(origins, desc)
  /\ op' = [name |-> "unregister", desc |-> desc]
  /\ Emit(<< >>)
  /\ UNCHANGED <<inFocus, calls, compiles>>

Descs == [title : Titles, url : Urls]

Register == \E desc \in Descs, content \in Windows : register(desc, content)
Unregister == \E desc \in Descs : unregister(desc)

\* registrations in which every title is shown in a window of its own
OwnWindow(title) == IF title = "A" THEN "w1" ELSE "w2"
RegisterOwn == \E desc \in Descs : register(desc, OwnWindow(desc.title))

(* --------------------------- host event taps -------------------------- *)
\* fileManager 'currentFileChanged'
currentFileChanged(file) ==
  /\ Emit(broadcast(plugins, JSONstringify(
            Notification("editor", "currentFileChanged", <<file>>))))
  /\ op' = [name |-> "currentFileChanged", file |-> file]
  /\ UNCHANGED <<plugins, origins, inFocus, calls, compiles>>

\* compiler 'compilationFinished'
compilationFinished(success, data, source) ==
  /\ Emit(broadcast(plugins, JSONstringify(
            Notification("compiler", "compilationFinished",
                         <<success, data, source>>))))
  /\ op' = [name |-> "compilationFinished"]
  /\ UNCHANGED <<plugins, origins, inFocus, calls, compiles>>

\* a newTransaction handler without the test of the provider
newTransactionUnfiltered(tx, provider) ==
  /\ Emit(broadcast(plugins, JSONstringify(
            Notification("txlistener", "newTransaction", <<tx>>))))
  /\ op' = [name |-> "newTransaction", provider |-> provider]
  /\ UNCHANGED <<plugins, origins, inFocus, calls, compiles>>

\* txlistener 'newTransaction'; provider is executionContext.getProvider()
newTransaction(tx, provider) ==
  /\ Emit(IF provider # "vm" THEN << >>
          ELSE broadcast(plugins, JSONstringify(
                 Notification("txlistener", "newTransaction", <<tx>>))))
  /\ op' = [name |-> "newTransaction", provider |-> provider]
  /\ UNCHANGED <<plugins, origins, inFocus, calls, compiles>>

CurrentFileChanged == \E file \in {"a.sol"} : currentFileChanged(file)
CompilationFinished ==
  \E success \in {"true"} : compilationFinished(success, "data", "source")
NewTransaction == \E provider \in Providers : newTransaction("tx", provider)

(* -------------------------------- focus ------------------------------- *)
\* what pluginAPI.compiler.getCompilationResult hands to its callback
CompilationResults == {<<null, "data">>, <<"failure", undefined>>}

\* the callback given to getCompilationResult(tabName, ...)
compilationResultCallback(p, tabName, error, data) ==
  IF ~Truthy(error) THEN << >>
  ELSE post(p, tabName, JSONstringify(
              Notification("compiler", "compilationData", <<data>>)))

\* an unfocus half whose test is the wrong way round
tabChangedUnfocusSame(p, focus, tabName) ==
  IF Truthy(focus) /\ focus = tabName
    THEN post(p, focus, JSONstringify(Notification("app", "unfocus", << >>)))
    ELSE << >>

\* the unfocus half of the tabChanged handler
tabChangedUnfocus(p, focus, tabName) ==
  IF Truthy(focus) /\ focus # tabName
    THEN post(p, focus, JSONstringify(Notification("app", "unfocus", << >>)))
    ELSE << >>

\* how getCompilationResult treats its callback: it keeps it for later, or
\* calls it with (error, data) before it returns
Hows ==
  {[later |-> TRUE, error |-> undefined, data |-> undefined]}
  \cup {[later |-> FALSE, error |-> r[1], data |-> r[2]] : r \in CompilationResults}

\* app 'tabChanged'
tabChanged(tabName, how) ==
  LET unfocus == tabChangedUnfocus(plugins, inFocus, tabName)
      focus == post(plugins, tabName,
                    JSONstringify(Notification("app", "focus", << >>)))
  IN
  /\ op' = [name |-> "tabChanged", tabName |-> tabName, was |-> inFocus,
            how |-> how]
  /\ IF Has(plugins, tabName)
       THEN /\ inFocus' = tabName
            /\ IF how.later
                 THEN /\ Len(compiles) < MaxCompiles
                      /\ compiles' = Append(compiles, tabName)
                      /\ Emit(unfocus \o focus)
                 ELSE /\ compiles' = compiles
                      /\ Emit(unfocus \o focus \o
                              compilationResultCallback(plugins, tabName,
                                                        how.error, how.data))
       ELSE /\ how.later
            /\ Emit(unfocus)
            /\ UNCHANGED <<inFocus, compiles>>
  /\ UNCHANGED <<plugins, origins, calls>>

\* a deferred getCompilationResult callback fires
compilationResult(i, error, data) ==
  /\ i \in DOMAIN compiles
  /\ Emit(compilationResultCallback(plugins, compiles[i], error, data))
  /\ compiles' = [j \in 1..(Len(compiles) - 1) |->
                    IF j < i THEN compiles[j] ELSE compiles[j + 1]]
  /\ op' = [name |-> "compilationResult", tabName |-> compiles[i],
            error |-> error, data |-> data]
  /\ UNCHANGED <<plugins, origins, inFocus, calls>>

TabChanged ==
  \E tabName \in TabNames, how \in Hows :
    tabChanged(tabName, how)
CompilationResult ==
  \E i \in 1..MaxCompiles, r \in CompilationResults :
    compilationResult(i, r[1], r[2])

(* ------------------------------- router ------------------------------- *)
\* the endpoint table: the (key, type) pairs for which pluginAPI[key][type] exists
pluginAPI == {<<"config", "getConfig">>}

\* pluginAPI[data.key] && pluginAPI[data.key][data.type]
EndpointPresent(key, type) == <<key, type>> \in pluginAPI

\* what an endpoint handler hands to its completion callback (error, result)
Completions == {<<undefined, "content">>, <<"failure", undefined>>}

\* how an endpoint handler treats its completion callback, as for Hows
Handlings ==
  {[later |-> TRUE, error |-> undefined, result |-> undefined]}
  \cup {[later |-> FALSE, error |-> c[1], result |-> c[2]] : c \in Completions}

\* event.data: a text that is not JSON, or the JSON text of an object
Requests ==
  {[id |-> i, action |-> "request", key |-> k[1], type |-> k[2], value |-> <<"f">>] :
     i \in Ids, k \in {<<"config", "getConfig">>, <<"config", "nope">>,
                       <<"nokey", "getConfig">>}}
Payloads ==
  {[text |-> "garbage", obj |-> [action |-> "request"]]}
  \cup {[text |-> "json", obj |-> [id |-> 1, action |-> "request",
                                   key |-> "config", type |-> "getConfig"]]}
  \cup {[text |-> "json", obj |-> r] : r \in Requests}

\* an origin lookup that takes every sender for plugin "A"
extensionAny(o, origin) == IF Truthy(o[origin]) THEN o[origin] ELSE "A"

\* var extension = self.origins[event.origin]
extensionOf(o, origin) == o[origin]

\* a response that echoes the key and the type in each other's place
responseSwapped(p, o, origin, key, type, callid, error, result) ==
  postToOrigin(p, o, origin,
    JSONstringify([id |-> callid, action |-> "response", key |-> type,
                   type |-> key, error |-> error, value |-> <<result>>]))

\* function response (key, type, callid, error, result), closed over event.origin
response(p, o, origin, key, type, callid, error, result) ==
  postToOrigin(p, o, origin,
    JSONstringify([id |-> callid, action |-> "response", key |-> key,
                   type |-> type, error |-> error, value |-> <<result>>]))

\* `Endpoint ${data.key}/${data.type} not present`, a string
NotPresent(key, type) ==
  CASE key = "config" /\ type = "nope" -> "Endpoint config/nope not present"
    [] key = "nokey" /\ type = "getConfig" -> "Endpoint nokey/getConfig not present"
    [] OTHER -> "Endpoint config/getConfig not present"

\* window 'message' listener; event.type is 'message' for every event it gets.
\* At most cap handlers are left waiting for their completion at a time.
listener(origin, payload, handling, cap) ==
  LET extension == extensionOf(origins, origin)
      data == JSONparse(payload)
  IN
  /\ UNCHANGED <<plugins, origins, inFocus, compiles>>
  /\ IF ~Truthy(extension)
       THEN /\ handling.later
            /\ op' = [name |-> "message", origin |-> origin, payload |-> payload,
                      outcome |-> "untrusted"]
            /\ Emit(<< >>)
            /\ UNCHANGED calls
     ELSE IF ParseThrows(payload) \/ ValueThrows(data)
       THEN /\ handling.later
            /\ op' = [name |-> "message", origin |-> origin, payload |-> payload,
                      outcome |-> "threw"]
            /\ Emit(<< >>)
            /\ UNCHANGED calls
     ELSE IF EndpointPresent(data.key, data.type)
       THEN /\ op' = [name |-> "message", origin |-> origin, payload |-> payload,
                      outcome |-> "invoked", extension |-> extension,
                      handling |-> handling]
            /\ IF handling.later
                 THEN /\ Len(calls) < cap
                      /\ calls' = Append(calls,
                           [origin |-> origin, key |-> data.key, type |-> data.type,
                            id |-> data.id, args |-> <<extension>> \o data.value])
                      /\ Emit(<< >>)
                 ELSE /\ calls' = calls
                      /\ Emit(response(plugins, origins, origin, data.key, data.type,
                                       data.id, handling.error, handling.result))
       ELSE /\ handling.later
            /\ op' = [name |-> "message", origin |-> origin, payload |-> payload,
                      outcome |-> "absent", extension |-> extension]
            /\ Emit(response(plugins, origins, origin, data.key, data.type, data.id,
                             NotPresent(data.key, data.type), null))
            /\ UNCHANGED calls

message(origin, payload, handling) == listener(origin, payload, handling, MaxCalls)

\* a completion that answers with the id, key and type of the latest request
\* (response closing over a variable shared by all events)
completionOfLatest(i, error, result) ==
  /\ i \in DOMAIN calls
  /\ Emit(response(plugins, origins, calls[i].origin, calls[Len(calls)].key,
                   calls[Len(calls)].type, calls[Len(calls)].id, error, result))
  /\ calls' = [j \in 1..(Len(calls) - 1) |->
                 IF j < i THEN calls[j] ELSE calls[j + 1]]
  /\ op' = [name |-> "completion", call |-> calls[i], error |-> error,
            result |-> result]
  /\ UNCHANGED <<plugins, origins, inFocus, compiles>>

\* an endpoint handler calls the completion callback it was given
completion(i, error, result) ==
  /\ i \in DOMAIN calls
  /\ Emit(response(plugins, origins, calls[i].origin, calls[i].key, calls[i].type,
                   calls[i].id, error, result))
  /\ calls' = [j \in 1..(Len(calls) - 1) |->
                 IF j < i THEN calls[j] ELSE calls[j + 1]]
  /\ op' = [name |-> "completion", call |-> calls[i], error |-> error,
            result |-> result]
  /\ UNCHANGED <<plugins, origins, inFocus, compiles>>

Message ==
  \E origin \in Urls, payload \in Payloads, handling \in Handlings :
    message(origin, payload, handling)
Completion ==
  \E i \in 1..MaxCalls, c \in Completions : completion(i, c[1], c[2])

(* ------------------ the post methods, called by the host -------------- *)
\* a value the host hands to post, postToOrigin or broadcast
HostValue == Notification("host", "m", << >>)

\* pluginManager.post(name, value)
callPost(name, value) ==
  /\ Emit(post(plugins, name, value))
  /\ op' = [name |-> "post", title |-> name]
  /\ UNCHANGED <<plugins, origins, inFocus, calls, compiles>>

\* pluginManager.postToOrigin(origin, value)
callPostToOrigin(origin, value) ==
  /\ Emit(postToOrigin(plugins, origins, origin, value))
  /\ op' = [name |-> "postToOrigin", origin |-> origin]
  /\ UNCHANGED <<plugins, origins, inFocus, calls, compiles>>

\* pluginManager.broadcast(value)
callBroadcast(value) ==
  /\ Emit(broadcast(plugins, value))
  /\ op' = [name |-> "broadcast"]
  /\ UNCHANGED <<plugins, origins, inFocus, calls, compiles>>

CallPost == \E name \in TabNames : callPost(name, HostValue)
CallPostToOrigin == \E origin \in Urls : callPostToOrigin(origin, HostValue)
CallBroadcast == callBroadcast(HostValue)

NextRegistry == Register \/ Unregister
SpecRegistry == Init /\ [][NextRegistry]_vars

NextFocus == Register \/ Unregister \/ TabChanged \/ CompilationResult
SpecFocus == Init /\ [][NextFocus]_vars

NextRouter == RegisterOwn \/ Unregister \/ Message \/ Completion
SpecRouter == Init /\ [][NextRouter]_vars

NextEvents ==
  \/ Register \/ Unregister
  \/ CurrentFileChanged \/ CompilationFinished \/ NewTransaction

SpecEvents == Init /\ [][NextEvents]_vars

\* the router together with the post methods
NextDelivery ==
  \/ RegisterOwn \/ Unregister
  \/ Message \/ Completion
  \/ CallPost \/ CallPostToOrigin \/ CallBroadcast
SpecDelivery == Init /\ [][NextDelivery]_vars

\* registrations in which every title is served from a url of its own
OwnUrl(title) == IF title = "A" THEN "u1" ELSE "u2"
OwnDescs == {[title |-> t, url |-> OwnUrl(t)] : t \in Titles}
RegisterHome == \E desc \in OwnDescs : register(desc, OwnWindow(desc.title))
UnregisterHome == \E desc \in OwnDescs : unregister(desc)

\* one payload of each kind: not JSON, a request for a present endpoint and
\* a request for an absent one
HostPayloads ==
  {pl \in Payloads : /\ "value" \in DOMAIN pl.obj => pl.obj.id = 1
                     /\ pl.text = "json" => "value" \in DOMAIN pl.obj
                     /\ pl.obj.action = "request"
                     /\ "key" \in DOMAIN pl.obj => pl.obj.key = "config"}
MessageHome ==
  \E origin \in Urls, payload \in HostPayloads, handling \in Handlings :
    message(origin, payload, handling)

\* the router with several requests in flight
MessageInflight ==
  \E origin \in Urls, payload \in Payloads, handling \in Handlings :
    listener(origin, payload, handling, MaxInflight)
CompletionInflight ==
  \E i \in 1..MaxInflight, c \in Completions : completion(i, c[1], c[2])
NextInflight ==
  \/ RegisterHome \/ UnregisterHome
  \/ MessageInflight \/ CompletionInflight
SpecInflight == Init /\ [][NextInflight]_vars

\* every operation of the plugin manager
NextHost ==
  \/ RegisterHome \/ UnregisterHome
  \/ CurrentFileChanged \/ CompilationFinished \/ NewTransaction
  \/ TabChanged \/ CompilationResult
  \/ MessageHome \/ Completion
  \/ CallPost \/ CallPostToOrigin \/ CallBroadcast
SpecHost == Init /\ [][NextHost]_vars

Next ==
  \/ Register \/ Unregister
  \/ CurrentFileChanged \/ CompilationFinished \/ NewTransaction
  \/ TabChanged \/ CompilationResult
  \/ Message \/ Completion
Spec == Init /\ [][Next]_vars
(* ======================= properties of the registry =================== *)

\* C1: after every register/unregister the two mappings are mutually
\* consistent: origins[u] = t iff plugins[t] exists and plugins[t].origin = u.
C1_MappingsConsistent ==
  \A u \in Urls, t \in Titles :
    (origins[u] = t) <=> (Has(plugins, t) /\ Get(plugins, t).origin = u)

\* the message of the step just taken is a well-formed request
WellFormed(o) == o.payload.text = "json" /\ "value" \in DOMAIN o.payload.obj

\* the step just taken re-registered a title whose recorded origin was bound
\* to it, under another url
Reregistered(o) ==
  /\ o.name = "register"
  /\ o.old # undefined
  /\ o.old # o.desc.url

\* C9: after register(T, u1) followed by register(T, u2), u1 # u2, origins[u1]
\* is absent and a message arriving from u1 is treated as untrusted (no handler
\* invoked, no response sent).
C9_OldOriginUntrusted ==
  [][ /\ (Reregistered(op') /\ origins[op'.old] = op'.desc.title)
           => origins'[op'.old] = undefined
      /\ (/\ Reregistered(op)
          /\ op'.name = "message"
          /\ op'.origin = op.old
          /\ WellFormed(op')
          /\ origins[op.old] = op.desc.title)
           => (sent' = << >> /\ calls' = calls) ]_vars

(* ======================== properties of the router ==================== *)

\* C2: an inbound message whose origin is not a key of origins at arrival
\* produces no outbound message, invokes no endpoint handler and leaves
\* plugins, origins and inFocus unchanged, whatever its payload.
C2_UntrustedDropped ==
  [][ (op'.name = "message" /\ origins[op'.origin] = undefined)
        => /\ sent' = << >>
           /\ calls' = calls
           /\ plugins' = plugins /\ origins' = origins /\ inFocus' = inFocus ]_vars

C2_Witness ==
  /\ op.name = "message"
  /\ origins[op.origin] = undefined
  /\ WellFormed(op)
  /\ EndpointPresent(op.payload.obj.key, op.payload.obj.type)
  /\ plugins # << >>

\* the step just taken is a handler completing without error; Request is the
\* request it completes, with the origin it came from and the title resolved
\* for it at arrival
Succeeded ==
  \/ op.name = "completion" /\ op.error = undefined
  \/ /\ op.name = "message" /\ op.outcome = "invoked"
     /\ ~op.handling.later /\ op.handling.error = undefined
Request ==
  IF op.name = "completion"
    THEN [origin |-> op.call.origin, requester |-> op.call.args[1],
          id |-> op.call.id, key |-> op.call.key, type |-> op.call.type]
    ELSE [origin |-> op.origin, requester |-> op.extension,
          id |-> op.payload.obj.id, key |-> op.payload.obj.key,
          type |-> op.payload.obj.type]

\* exactly one envelope sent: a response echoing the request, with no error
OneEnvelope(r) ==
  /\ Len(sent) = 1
  /\ sent[1].data.action = "response"
  /\ sent[1].data.id = r.id
  /\ sent[1].data.key = r.key
  /\ sent[1].data.type = r.type
  /\ sent[1].data.error = "absent"

\* one response, to the requester, echoing the request, with no error
OneResponse(r) == OneEnvelope(r) /\ sent[1].to = r.requester

\* the request's origin is not left bound to a title that is no longer in
\* plugins (the stale binding of C1)
NotStale(r) == Truthy(origins[r.origin]) => Has(plugins, origins[r.origin])

\* C3 as claimed: every request from a registered plugin's origin for a present
\* endpoint whose handler completes once without error results in exactly one
\* response with the request's id, key and type and no error, whatever
\* happened between arrival and completion.  (Stated for the number and the
\* contents of the envelopes, who receives them being C4, and for the states
\* without a stale binding, those being C1 and C5.)
C3_ExactlyOneResponse ==
  (Succeeded /\ NotStale(Request)) => OneEnvelope(Request)

\* C3 as amended: the response is delivered when, at completion, the request's
\* origin is still bound to the requester and the requester is still in
\* plugins; when the origin is bound to no title, or to a title that is not in
\* plugins, nothing is sent.
C3_ResponseWhileBound ==
  Succeeded =>
    LET r == Request IN
    /\ (origins[r.origin] = r.requester /\ Has(plugins, r.requester))
         => (OneResponse(r) /\ sent[1].window = Get(plugins, r.requester).content)
    /\ (~Truthy(origins[r.origin]) \/ ~Has(plugins, origins[r.origin]))
         => sent = << >>

C3_Witness ==
  /\ op.name = "completion" /\ op.error = undefined
  /\ origins[Request.origin] = Request.requester
  /\ OneResponse(Request)

\* C4: the response to a request that arrived from the origin bound to plugin
\* P at arrival is never posted to a plugin whose title differs from P.
C4_OnlyToRequester ==
  (op.name = "completion") =>
    \A i \in DOMAIN sent : sent[i].to = op.call.args[1]

\* C5: a request from a registered origin for an absent (key, type) yields
\* exactly one response to the requesting plugin, with the request's id, key
\* and type and a non-null error, during dispatch, and no handler is invoked.
C5_AbsentEndpointAnswered ==
  [][ (/\ op'.name = "message"
       /\ Truthy(origins[op'.origin])
       /\ WellFormed(op')
       /\ ~EndpointPresent(op'.payload.obj.key, op'.payload.obj.type))
        => /\ Len(sent') = 1
           /\ sent'[1].to = origins[op'.origin]
           /\ sent'[1].data.action = "response"
           /\ sent'[1].data.id = op'.payload.obj.id
           /\ sent'[1].data.key = op'.payload.obj.key
           /\ sent'[1].data.type = op'.payload.obj.type
           /\ sent'[1].data.error \notin {"absent", null}
           /\ calls' = calls ]_vars

(* ====================== properties of the event taps ================== *)

\* the step just taken broadcast a notification
Broadcast ==
  \/ op.name \in {"currentFileChanged", "compilationFinished"}
  \/ op.name = "newTransaction" /\ op.provider = "vm"

\* C8: broadcast(N) with k plugins registered makes exactly k deliveries of N,
\* one to each registered plugin's window with that plugin's recorded origin as
\* target, none twice and none omitted; with k = 0 nothing is sent.
C8_BroadcastOncePerPlugin ==
  Broadcast =>
    /\ Len(sent) = Len(plugins)
    /\ \A t \in Titles : Has(plugins, t) =>
         \E i \in DOMAIN sent :
           /\ sent[i].to = t
           /\ sent[i].window = Get(plugins, t).content
           /\ sent[i].targetOrigin = Get(plugins, t).origin
           /\ \A j \in DOMAIN sent : sent[j].to = t => j = i
    /\ \A i, j \in DOMAIN sent : sent[i].data = sent[j].data
    /\ \A i \in DOMAIN sent :
         /\ sent[i].data.action = "notification"
         /\ op.name = "currentFileChanged" =>
              /\ sent[i].data.key = "editor"
              /\ sent[i].data.type = "currentFileChanged"
              /\ sent[i].data.value = <<op.file>>
         /\ op.name = "compilationFinished" =>
              /\ sent[i].data.key = "compiler"
              /\ sent[i].data.type = "compilationFinished"
         /\ op.name = "newTransaction" =>
              /\ sent[i].data.key = "txlistener"
              /\ sent[i].data.type = "newTransaction"

C8_Witness ==
  /\ op.name = "currentFileChanged"
  /\ Len(plugins) = 2
  /\ Len(sent) = 2
  /\ sent[1].window # sent[2].window
  /\ sent[1].targetOrigin # sent[2].targetOrigin

(* ========================= properties of the focus ==================== *)

IsNote(d, key, type) ==
  d.data.action = "notification" /\ d.data.key = key /\ d.data.type = type

\* the step just taken is a focus change from registered A to registered B # A
FocusChange ==
  /\ op.name = "tabChanged"
  /\ Truthy(op.was)
  /\ op.was # op.tabName
  /\ Has(plugins, op.was)
  /\ Has(plugins, op.tabName)

\* C6: on a focus change from A to B, both registered and distinct, unfocus is
\* posted to A strictly before focus is posted to B, inFocus becomes B, and no
\* plugin but A receives unfocus and none but B receives focus.
C6_UnfocusBeforeFocus ==
  FocusChange =>
    /\ Len(sent) >= 2
    /\ IsNote(sent[1], "app", "unfocus") /\ sent[1].to = op.was
    /\ IsNote(sent[2], "app", "focus") /\ sent[2].to = op.tabName
    /\ inFocus = op.tabName
    /\ \A i \in DOMAIN sent :
         /\ IsNote(sent[i], "app", "unfocus") => i = 1
         /\ IsNote(sent[i], "app", "focus") => i = 2

C6_Witness ==
  /\ FocusChange
  /\ Len(sent) = 2
  /\ sent[1].window # sent[2].window
  /\ lastNote[op.was] = "unfocus"
  /\ lastNote[op.tabName] = "focus"

\* the step just taken handed a compilation result for B to the callback of
\* tabChanged(B), B being registered; CompileError is the error it reported
Compiled ==
  \/ op.name = "compilationResult" /\ Has(plugins, op.tabName)
  \/ op.name = "tabChanged" /\ Has(plugins, op.tabName) /\ ~op.how.later
CompileError == IF op.name = "compilationResult" THEN op.error ELSE op.how.error

\* C7: after a focus transition to B, compilationData is sent to B exactly when
\* getCompilationResult(B) completes without error, never when it reports an
\* error, and never to a plugin other than B.
C7_DataOnlyWhenAvailable ==
  Compiled =>
    /\ (\E i \in DOMAIN sent : IsNote(sent[i], "compiler", "compilationData"))
         <=> ~Truthy(CompileError)
    /\ \A i \in DOMAIN sent :
         IsNote(sent[i], "compiler", "compilationData") => sent[i].to = op.tabName

\* C10: at most one currently registered title has focus as the most recent
\* focus/unfocus notification delivered to it.
C10_OneFocused ==
  Cardinality({t \in Titles : Has(plugins, t) /\ lastNote[t] = "focus"}) <= 1

(* ================== further properties of the event taps ============== *)

\* C11: on a compilationFinished event no registered plugin other than the one
\* named by inFocus receives the notification, and none receives it when no
\* plugin is in focus.
C11_FinishedOnlyToFocused ==
  (op.name = "compilationFinished") =>
    \A i \in DOMAIN sent : sent[i].to = inFocus

\* C15: a newTransaction event is forwarded as a txlistener/newTransaction
\* broadcast only when the provider is 'vm'; for any other provider it
\* produces no outbound message at all.
C15_TransactionsOnlyFromVm ==
  (op.name = "newTransaction") =>
    /\ op.provider # "vm" => sent = << >>
    /\ op.provider = "vm" =>
         /\ Len(sent) = Len(plugins)
         /\ \A i \in DOMAIN sent : IsNote(sent[i], "txlistener", "newTransaction")

C15_Witness ==
  /\ op.name = "newTransaction"
  /\ op.provider = "injected"
  /\ Len(plugins) = 2
  /\ sent = << >>

(* ==================== further properties of the router ================ *)

\* the message of the step just taken fails to decode, or decodes to an
\* envelope without a value sequence
Malformed(o) == o.payload.text # "json" \/ "value" \notin DOMAIN o.payload.obj

\* C12: a malformed payload from a registered origin is dropped silently: no
\* outbound message, no handler invoked, no exception escaping the listener,
\* state unchanged.
C12_MalformedDropped ==
  [][ (op'.name = "message" /\ Truthy(origins[op'.origin]) /\ Malformed(op'))
        => /\ op'.outcome # "threw"
           /\ sent' = << >>
           /\ calls' = calls
           /\ plugins' = plugins /\ origins' = origins /\ inFocus' = inFocus ]_vars

\* a JS value that is an error record {code, msg?, data?, stack?} with a
\* numeric code, and not a string
IsErrorRecord(e) ==
  /\ e \notin STRING
  /\ "code" \in DOMAIN e
  /\ e.code \in Nat
  /\ DOMAIN e \subseteq {"code", "msg", "data", "stack"}

\* C14: the error of the response sent for an absent endpoint is a structured
\* error record with a numeric 'not found' code and a msg naming the missing
\* key/type.
C14_NotFoundIsErrorRecord ==
  (op.name = "message" /\ op.outcome = "absent") =>
    \A i \in DOMAIN sent :
      /\ IsErrorRecord(sent[i].data.error)
      /\ sent[i].data.error.msg
           = NotPresent(op.payload.obj.key, op.payload.obj.type)

(* ==================== further properties of the focus ================= *)

\* C13: tabChanged(T) when inFocus = T sends no notification to any plugin and
\* leaves inFocus, plugins and origins unchanged.
C13_SameFocusIsNoOp ==
  [][ (op'.name = "tabChanged" /\ inFocus = op'.tabName)
        => /\ sent' = << >>
           /\ inFocus' = inFocus
           /\ plugins' = plugins /\ origins' = origins ]_vars

\* C19: inFocus is either unset or the title of a currently registered plugin.
C19_FocusIsRegistered == inFocus = undefined \/ Has(plugins, inFocus)

\* C20: whenever inFocus = P and P has stayed registered since it gained focus,
\* the most recent focus/unfocus notification posted to P is focus.  (Stated
\* for the step that follows the one in which P gained focus.)
C20_FocusAgreesWithNotes ==
  [][ (/\ op.name = "tabChanged"
       /\ inFocus = op.tabName
       /\ Has(plugins, inFocus)
       /\ Has(plugins', inFocus)
       /\ inFocus' = inFocus)
        => lastNote'[inFocus] = "focus" ]_vars

(* ================== properties of delivery and of the frame =========== *)

\* the title that made the request of call c (the first argument its handler got)
Requester(c) == c.args[1]

\* C16: delivery failure is silent and local: post(title, m) for a title not
\* in plugins and postToOrigin(origin, m) for an origin not in origins send
\* nothing and leave plugins, origins and inFocus unchanged, and a handler
\* completion that fires when its requesting plugin is no longer registered
\* sends nothing.
C16_DeliveryFailureSilent ==
  [][ /\ (op'.name = "post" /\ ~Has(plugins, op'.title))
         => /\ sent' = << >>
            /\ plugins' = plugins /\ origins' = origins /\ inFocus' = inFocus
      /\ (op'.name = "postToOrigin" /\ ~Truthy(origins[op'.origin]))
         => /\ sent' = << >>
            /\ plugins' = plugins /\ origins' = origins /\ inFocus' = inFocus
      /\ (op'.name = "completion" /\ ~Has(plugins, Requester(op'.call)))
         => /\ sent' = << >>
            /\ plugins' = plugins /\ origins' = origins /\ inFocus' = inFocus
    ]_vars

\* C18: plugins and origins are changed only by register and unregister, and
\* inFocus only by tabChanged; every other operation leaves the three
\* unchanged, and register/unregister leave inFocus unchanged.
C18_RegistryAndFocusFrame ==
  [][ /\ op'.name \notin {"register", "unregister"}
         => (plugins' = plugins /\ origins' = origins)
      /\ op'.name # "tabChanged" => inFocus' = inFocus ]_vars

C18_Witness ==
  /\ op.name = "unregister"
  /\ op.desc.title = "A"
  /\ inFocus = "A"
  /\ ~Has(plugins, "A")
  /\ calls # << >>

(* ==================== properties of the response envelope ============= *)

\* the response envelope {id, action: 'response', key, type, error, value:
\* [result]} as it is written to the wire
Envelope(callid, key, type, error, result) ==
  JSONstringify([id |-> callid, action |-> "response", key |-> key,
                 type |-> type, error |-> error, value |-> <<result>>])

\* C17: every response built from a handler completion(error, result) has
\* action 'response', value [result] and the error the handler passed, and the
\* id, key and type of the request that created the completion callback, also
\* when other requests are in flight: a deferred request is recorded with its
\* own id, key and type, and its completion answers with exactly those, as
\* does a completion made during dispatch.
C17_ResponseOfItsRequest ==
  [][ /\ (op'.name = "message" /\ op'.outcome = "invoked" /\ op'.handling.later)
         => /\ Len(calls') = Len(calls) + 1
            /\ SubSeq(calls', 1, Len(calls)) = calls
            /\ calls'[Len(calls')].id = op'.payload.obj.id
            /\ calls'[Len(calls')].key = op'.payload.obj.key
            /\ calls'[Len(calls')].type = op'.payload.obj.type
      /\ (op'.name = "message" /\ op'.outcome = "invoked" /\ ~op'.handling.later)
         => \A i \in DOMAIN sent' :
              sent'[i].data = Envelope(op'.payload.obj.id, op'.payload.obj.key,
                                       op'.payload.obj.type, op'.handling.error,
                                       op'.handling.result)
      /\ (op'.name = "completion")
         => /\ \E k \in DOMAIN calls :
                 /\ calls[k] = op'.call
                 /\ calls' = SubSeq(calls, 1, k - 1) \o SubSeq(calls, k + 1, Len(calls))
            /\ \A i \in DOMAIN sent' :
                 sent'[i].data = Envelope(op'.call.id, op'.call.key, op'.call.type,
                                          op'.error, op'.result)
    ]_vars

C17_Witness ==
  /\ op.name = "completion"
  /\ sent # << >>
  /\ calls # << >>
  /\ \E k \in DOMAIN calls : calls[k].id # op.call.id
  /\ sent[1].data.id = op.call.id
====
